---- MODULE Spec2Model ----
(***************************************************************************)
(* Model of the RoleMatrix screen (src/src/pages/roleMatrix.tsx) and of    *)
(* the read helper apiGet (src/src/api/client.ts).                         *)
(*                                                                         *)
(* The component's React state is the set of client variables; every       *)
(* event handler is one action for each of its synchronous segments (the   *)
(* code between two awaits runs without interleaving on the UI thread).    *)
(* A handler invocation that awaits is an entry of `tasks`, which keeps    *)
(* the values its closure captured at the render it was created in.        *)
(* The HTTP service is the environment: it serves each request atomically  *)
(* at some moment after it was sent, and the response reaches the client   *)
(* at some later moment; requests of different invocations are not ordered.*)
(***************************************************************************)
EXTENDS Integers, Sequences, FiniteSets, TLC

\* ------------------------------------------------------------------ bounds
NumUsers == 2
NumRoles == 2
NumModules == 1
\* user-started workflows (Apply, Save, role toggle) per behaviour of Spec
MaxTasks == 1
\* the action checkboxes the operator uses: the first NumActions of ACTIONS
NumActions == 2
\* role toggles per behaviour of SpecAssign
MaxToggles == 2
\* presses of Apply or Save per behaviour of SpecModals
MaxPresses == 2
\* rows / links of a drawn snapshot (SpecResolver)
MaxRows == 2
MaxLinks == 2

\* ------------------------------------------------------- program constants
\* ACTIONS (a reserved word of TLA+)
Actions == <<"read", "create", "update", "delete">>
\* `null as number | null`: ids of the service are positive
Null == 0
NoAction == "null"
NoAlert == ""

UserIds == 1..NumUsers
RoleIds == 1..NumRoles
ModuleIds == 1..NumModules

Range(s) == {s[i] : i \in DOMAIN s}
Includes(s, x) == \E i \in DOMAIN s : s[i] = x

\* ---------------------------------------------------------------- state
VARIABLES
  sPermissions,   \* service: permission rows, in the order GET returns them
  sUserRoles,     \* service: user-role links
  nextId,         \* service: next id it assigns
  users, modules, permissions, userRoles, roles,   \* useState collections
  loading, activeTab, fieldsModal, actionModal,    \* useState, continued
  alertShown,     \* text of the window.alert of the step just taken, if any
  tasks,          \* async handler invocations, in start order
  view,           \* what the matrix cell last rendered shows
  limit           \* workflows the operator starts in this behaviour

vars == <<sPermissions, sUserRoles, nextId, users, modules, permissions,
          userRoles, roles, loading, activeTab, fieldsModal, actionModal,
          alertShown, tasks, view, limit>>

serverVars == <<sPermissions, sUserRoles, nextId>>
collectionVars == <<users, modules, permissions, userRoles, roles>>

\* ------------------------------------------------------ Permission Resolver
\* key of permMap: `${p.roleId}-${p.moduleId}`; for the positive ids of the
\* service the string determines the pair and the pair the string
PermKey(roleId, moduleId) == <<roleId, moduleId>>

\* (a variant that keeps the first row of a key)
MapSetKeepsFirst(m, key, p) ==
  [k \in DOMAIN m \cup {key} |-> IF k \in DOMAIN m THEN m[k] ELSE p]

\* Map.set: a later row with the same key replaces the earlier one
MapSet(m, key, p) == [k \in DOMAIN m \cup {key} |-> IF k = key THEN p ELSE m[k]]

RECURSIVE PermMapFrom(_, _, _)
PermMapFrom(perms, i, m) ==
  IF i > Len(perms) THEN m
  ELSE PermMapFrom(perms, i + 1,
                   MapSet(m, PermKey(perms[i].roleId, perms[i].moduleId), perms[i]))

EmptyMap == [k \in {} |-> k]
PermMapOf(perms) == PermMapFrom(perms, 1, EmptyMap)
permMap == PermMapOf(permissions)
MapHas(m, key) == key \in DOMAIN m

RECURSIVE RoleIdsOf(_, _)
RoleIdsOf(urs, userId) ==
  IF urs = <<>> THEN <<>>
  ELSE IF Head(urs).userId = userId
       THEN <<Head(urs).roleId>> \o RoleIdsOf(Tail(urs), userId)
       ELSE RoleIdsOf(Tail(urs), userId)

userRoleIds(userId) == RoleIdsOf(userRoles, userId)

userRolesObjects(userId) ==
  LET ids == userRoleIds(userId)
  IN SelectSeq(roles, LAMBDA r : Includes(ids, r.id))

RECURSIVE HasActionFrom(_, _, _, _)
HasActionFrom(roleIds, i, moduleId, action) ==
  IF i > Len(roleIds) THEN FALSE
  ELSE LET key == PermKey(roleIds[i], moduleId)
       IN IF MapHas(permMap, key) /\ Includes(permMap[key].actions, action)
          THEN TRUE
          ELSE HasActionFrom(roleIds, i + 1, moduleId, action)

userHasAction(userId, moduleId, action) ==
  HasActionFrom(userRoleIds(userId), 1, moduleId, action)

\* (a variant that pushes to an array instead of adding to a Set)
SetAddPushes(s, f) == Append(s, f)

\* Set.add, the Set kept in insertion order as Array.from returns it
SetAdd(s, f) == IF Includes(s, f) THEN s ELSE Append(s, f)

RECURSIVE AddAll(_, _)
AddAll(s, fs) == IF fs = <<>> THEN s ELSE AddAll(SetAdd(s, Head(fs)), Tail(fs))

RECURSIVE UnionFrom(_, _, _, _)
UnionFrom(roleIds, i, moduleId, acc) ==
  IF i > Len(roleIds) THEN acc
  ELSE LET key == PermKey(roleIds[i], moduleId)
       IN IF ~MapHas(permMap, key)
          THEN UnionFrom(roleIds, i + 1, moduleId, acc)
          ELSE UnionFrom(roleIds, i + 1, moduleId,
                         [visible |-> AddAll(acc.visible, permMap[key].visibleFields),
                          editable |-> AddAll(acc.editable, permMap[key].editableFields)])

unionFieldsForUserModule(userId, moduleId) ==
  UnionFrom(userRoleIds(userId), 1, moduleId, [visible |-> <<>>, editable |-> <<>>])


\* ------------------------------------------------------------ the service
\* The collections the service starts with.  Users, roles and modules are
\* never changed through this screen.
ModuleFields == <<"a">>
ServerUsers == [i \in 1..NumUsers |-> [id |-> i]]
ServerRoles == [i \in 1..NumRoles |-> [id |-> i]]
ServerModules == [i \in 1..NumModules |-> [id |-> i, fields |-> ModuleFields]]

\* Datasets the service may hold when the screen is opened; each has at most
\* one permission row per (roleId, moduleId) and one link per (userId, roleId).
\* First: user 1 holds roles 1 and 2, the other users none; role 1 has a row
\* for module 1, role 2 has none.
DatasetA ==
  [userRoles |-> << [id |-> 1, userId |-> 1, roleId |-> 1],
                    [id |-> 2, userId |-> 1, roleId |-> 2] >>,
   permissions |-> << [id |-> 3, roleId |-> 1, moduleId |-> 1,
                       actions |-> <<"read">>,
                       visibleFields |-> <<"a">>, editableFields |-> <<>>] >>]
\* Second: user 1's first link is to role 2, user 2 holds role 1; both roles
\* have a row for module 1.
DatasetB ==
  [userRoles |-> << [id |-> 1, userId |-> 1, roleId |-> 2],
                    [id |-> 2, userId |-> 2, roleId |-> 1],
                    [id |-> 3, userId |-> 1, roleId |-> 1] >>,
   permissions |-> << [id |-> 4, roleId |-> 1, moduleId |-> 1,
                       actions |-> <<"create", "read">>,
                       visibleFields |-> <<>>, editableFields |-> <<"a">>],
                      [id |-> 5, roleId |-> 2, moduleId |-> 1,
                       actions |-> <<"create">>,
                       visibleFields |-> <<"a">>, editableFields |-> <<>>] >>]
InitDatasets == {DatasetA, DatasetB}
FirstFreeId(d) == Len(d.userRoles) + Len(d.permissions) + 1

\* ------------------------------------------------------------ requests
NoReq == [method |-> "none"]
Post(path, body) == [method |-> "POST", path |-> path, id |-> Null, body |-> body]
Put(path, id, body) == [method |-> "PUT", path |-> path, id |-> id, body |-> body]
Delete(path, id) == [method |-> "DELETE", path |-> path, id |-> id, body |-> <<>>]

\* the five paths of loadAll, in the order of its Promise.all
GetPaths == <<"user", "module", "permissions", "userRole", "role">>
NoGets == [p \in Range(GetPaths) |-> <<>>]

\* ------------------------------------------------------------ modals
ClosedActionModal ==
  [open |-> FALSE, userId |-> Null, moduleId |-> Null, action |-> NoAction,
   selectedRoles |-> EmptyMap, userRolesList |-> <<>>]

InitFieldsModal ==
  [open |-> FALSE, permId |-> Null, moduleId |-> Null, roleId |-> Null,
   visibleFields |-> <<>>, editableFields |-> <<>>, allFields |-> <<>>]

\* ------------------------------------------------------------ tasks
\* one invocation of an async function of the component; `sent` lists the
\* mutating requests it has issued and `errs` the roles whose request did
\* not succeed
NewTask(kind) ==
  [kind |-> kind, pc |-> "start", req |-> NoReq, resp |-> "none", data |-> <<>>,
   gets |-> NoGets, am |-> ClosedActionModal, perms |-> <<>>, i |-> 0,
   fm |-> InitFieldsModal, sent |-> <<>>, errs |-> {}]

\* an invocation that returned ("done"), that ended because its loadAll
\* rejected ("loadFailed") or because its own fetch rejected outside any try
\* ("threw"): its closure is gone
Finished(t, pc) == [NewTask(t.kind) EXCEPT !.pc = pc]

\* loadAll up to its await: the five fetches are sent
LoadStart(t) == [t EXCEPT !.pc = "load", !.req = NoReq, !.resp = "none", !.gets = NoGets]

\* fetch(...) of a mutating request, up to the await
Send(t, r) == [t EXCEPT !.pc = "fetch", !.req = r, !.resp = "none",
                        !.sent = Append(t.sent, r)]

UserTasks == {k \in DOMAIN tasks : tasks[k].kind # "init"}
CanStart == Cardinality(UserTasks) < limit

\* ------------------------------------------------------------ Init
\* the component as constructed and mounted, the service holding dataset d
Mounted(d) ==
  /\ sPermissions = d.permissions
  /\ sUserRoles = d.userRoles
  /\ nextId = FirstFreeId(d)
  /\ users = <<>> /\ modules = <<>> /\ permissions = <<>>
  /\ userRoles = <<>> /\ roles = <<>>
  /\ loading = TRUE
  /\ activeTab = "permissions"
  /\ fieldsModal = InitFieldsModal
  /\ actionModal = ClosedActionModal
  /\ alertShown = NoAlert
  /\ tasks = << LoadStart(NewTask("init")) >>     \* useEffect(() => loadAll(), [])
  /\ view = <<>>

Init ==
  /\ \E d \in InitDatasets : Mounted(d)
  /\ limit = MaxTasks

\* ------------------------------------------------------------ loadAll
\* what the service answers to GET /api/<path>/ at this moment
ServerData(path) ==
  CASE path = "user" -> ServerUsers
    [] path = "module" -> ServerModules
    [] path = "permissions" -> sPermissions
    [] path = "userRole" -> sUserRoles
    [] path = "role" -> ServerRoles

\* the service answers one GET of a pending loadAll with its current data.
\* The answers for users, modules and roles are the same at every moment, so
\* the moments these three are served cannot be told apart: one step serves them.
StaticPaths == {"user", "module", "role"}
GetGroups == {StaticPaths, {"permissions"}, {"userRole"}}

ServeGet(k, group) ==
  /\ tasks[k].pc = "load"
  /\ \A p \in group : tasks[k].gets[p] = <<>>
  /\ tasks' = [tasks EXCEPT ![k].gets =
                 [p \in DOMAIN @ |-> IF p \in group THEN << ServerData(p) >> ELSE @[p]]]
  /\ UNCHANGED <<serverVars, collectionVars, loading, activeTab, fieldsModal,
                 actionModal, view, limit>>
  /\ alertShown' = NoAlert

\* (a variant with a finally that clears the loading flag)
FailGetStopsLoading(k, path) ==
  /\ tasks[k].pc = "load"
  /\ tasks[k].gets[path] = <<>>
  /\ tasks' = [tasks EXCEPT ![k] = Finished(tasks[k], "loadFailed")]
  /\ loading' = FALSE
  /\ UNCHANGED <<serverVars, collectionVars, activeTab, fieldsModal,
                 actionModal, view, limit>>
  /\ alertShown' = NoAlert

\* apiGet throws (response not ok, or fetch rejected): Promise.all rejects,
\* loadAll rejects at its await, and so does the handler awaiting loadAll;
\* nothing catches it, no state is set
FailGet(k, path) ==
  /\ tasks[k].pc = "load"
  /\ tasks[k].gets[path] = <<>>
  /\ tasks' = [tasks EXCEPT ![k] = Finished(tasks[k], "loadFailed")]
  /\ UNCHANGED <<serverVars, collectionVars, loading, activeTab, fieldsModal,
                 actionModal, view, limit>>
  /\ alertShown' = NoAlert

\* (a variant in which the awaiting handler forgets to close its modal)
LoadCompleteLeavesModal(k) ==
  LET t == tasks[k] IN
  /\ t.pc = "load"
  /\ \A p \in Range(GetPaths) : t.gets[p] # <<>>
  /\ users' = t.gets["user"][1]
  /\ modules' = t.gets["module"][1]
  /\ permissions' = t.gets["permissions"][1]
  /\ userRoles' = t.gets["userRole"][1]
  /\ roles' = t.gets["role"][1]
  /\ loading' = FALSE
  /\ tasks' = [tasks EXCEPT ![k] = Finished(t, "done")]
  /\ UNCHANGED <<serverVars, activeTab, view, limit, actionModal, fieldsModal>>
  /\ alertShown' = NoAlert

\* Promise.all resolved: loadAll sets the five collections and loading, then
\* the awaiting handler runs to its end
LoadComplete(k) ==
  LET t == tasks[k] IN
  /\ t.pc = "load"
  /\ \A p \in Range(GetPaths) : t.gets[p] # <<>>
  /\ users' = t.gets["user"][1]
  /\ modules' = t.gets["module"][1]
  /\ permissions' = t.gets["permissions"][1]
  /\ userRoles' = t.gets["userRole"][1]
  /\ roles' = t.gets["role"][1]
  /\ loading' = FALSE
  /\ actionModal' = IF t.kind = "apply" THEN ClosedActionModal ELSE actionModal
  /\ fieldsModal' = IF t.kind = "save" THEN [t.fm EXCEPT !.open = FALSE] ELSE fieldsModal
  /\ tasks' = [tasks EXCEPT ![k] = Finished(t, "done")]
  /\ UNCHANGED <<serverVars, activeTab, view, limit>>
  /\ alertShown' = NoAlert


\* what is on screen: nothing but "Loading permissions..." while loading
\* and an open modal's backdrop (position fixed, inset 0) covers the page, so
\* the pointer reaches the tables and the tabs only while no modal is open
NoBackdrop == ~actionModal.open /\ ~fieldsModal.open
MatrixShown == ~loading /\ NoBackdrop /\ activeTab = "permissions"
AssignShown == ~loading /\ NoBackdrop /\ activeTab = "assign"
Ids(coll) == {coll[i].id : i \in DOMAIN coll}

setActiveTab(tab) ==
  /\ ~loading /\ NoBackdrop
  /\ activeTab # tab
  /\ activeTab' = tab
  /\ UNCHANGED <<serverVars, collectionVars, loading, fieldsModal, actionModal,
                 tasks, view, limit>>
  /\ alertShown' = NoAlert

\* --------------------------------------------------- Action-Toggle workflow
NoRolesAlert == "User has no roles assigned. Assign a role first."

\* selectedRoles of openActionModal: one entry per role object of the user
SeedSelection(objs, moduleId, action) ==
  [rid \in Ids(objs) |->
     LET key == PermKey(rid, moduleId)
     IN MapHas(permMap, key) /\ Includes(permMap[key].actions, action)]

\* (a variant without the early return)
openActionModalAnyway(userId, moduleId, action) ==
  LET userRolesObjs == userRolesObjects(userId) IN
  /\ MatrixShown
  /\ userId \in Ids(users) /\ moduleId \in Ids(modules)
  /\ actionModal' =
       [open |-> TRUE, userId |-> userId, moduleId |-> moduleId, action |-> action,
        selectedRoles |-> SeedSelection(userRolesObjs, moduleId, action),
        userRolesList |-> userRolesObjs]
  /\ alertShown' = NoAlert
  /\ UNCHANGED <<serverVars, collectionVars, loading, activeTab, fieldsModal,
                 tasks, view, limit>>

openActionModal(userId, moduleId, action) ==
  LET userRolesObjs == userRolesObjects(userId) IN
  /\ MatrixShown
  /\ userId \in Ids(users) /\ moduleId \in Ids(modules)
  /\ IF Len(userRolesObjs) = 0
     THEN /\ alertShown' = NoRolesAlert
          /\ UNCHANGED actionModal
     ELSE /\ actionModal' =
               [open |-> TRUE, userId |-> userId, moduleId |-> moduleId,
                action |-> action,
                selectedRoles |-> SeedSelection(userRolesObjs, moduleId, action),
                userRolesList |-> userRolesObjs]
          /\ alertShown' = NoAlert
  /\ UNCHANGED <<serverVars, collectionVars, loading, activeTab, fieldsModal,
                 tasks, view, limit>>

\* onChange of a role checkbox of the action modal
selectRole(roleId) ==
  /\ ~loading /\ actionModal.open
  /\ roleId \in Ids(actionModal.userRolesList)
  /\ actionModal' =
       [actionModal EXCEPT !.selectedRoles =
          MapSet(@, roleId, ~(MapHas(@, roleId) /\ @[roleId]))]
  /\ UNCHANGED <<serverVars, collectionVars, loading, activeTab, fieldsModal,
                 tasks, view, limit>>
  /\ alertShown' = NoAlert

\* (a variant that only hides the modal)
cancelActionModalKeepsSelection ==
  /\ ~loading /\ actionModal.open
  /\ actionModal' = [actionModal EXCEPT !.open = FALSE]
  /\ UNCHANGED <<serverVars, collectionVars, loading, activeTab, fieldsModal,
                 tasks, view, limit>>
  /\ alertShown' = NoAlert

cancelActionModal ==
  /\ ~loading /\ actionModal.open
  /\ actionModal' = ClosedActionModal
  /\ UNCHANGED <<serverVars, collectionVars, loading, activeTab, fieldsModal,
                 tasks, view, limit>>
  /\ alertShown' = NoAlert

RECURSIVE SortedSeq(_)
SortedSeq(S) ==
  IF S = {} THEN <<>>
  ELSE LET m == CHOOSE x \in S : \A y \in S : x <= y
       IN <<m>> \o SortedSeq(S \ {m})

\* Object.entries of a record with integer keys: ascending key order
RoleEntries(am) ==
  LET ks == SortedSeq(DOMAIN am.selectedRoles)
  IN [j \in DOMAIN ks |-> [roleId |-> ks[j], enabled |-> am.selectedRoles[ks[j]]]]

Filter(s, x) == SelectSeq(s, LAMBDA a : a # x)

\* (a variant that forgets to take the action away)
NewActionsNeverRemoves(actions, targetAction, enabled) ==
  IF enabled /\ ~Includes(actions, targetAction)
  THEN Append(actions, targetAction) ELSE actions

\* (a variant that pushes without looking whether the action is there)
NewActionsPushes(actions, targetAction, enabled) ==
  IF enabled THEN Append(actions, targetAction) ELSE Filter(actions, targetAction)

NewActions(actions, targetAction, enabled) ==
  LET has == Includes(actions, targetAction)
      pushed == IF enabled /\ ~has THEN Append(actions, targetAction) ELSE actions
  IN IF ~enabled /\ has THEN Filter(pushed, targetAction) ELSE pushed

\* (a variant that creates the missing row whatever the checkbox says)
ApplyRequestCreates(t, e) ==
  LET pm == PermMapOf(t.perms)
      key == PermKey(e.roleId, t.am.moduleId)
  IN IF ~MapHas(pm, key)
     THEN Post("permissions",
               [roleId |-> e.roleId, moduleId |-> t.am.moduleId,
                actions |-> IF e.enabled THEN <<t.am.action>> ELSE <<>>,
                visibleFields |-> <<>>, editableFields |-> <<>>])
     ELSE Put("permissions", pm[key].id,
              [pm[key] EXCEPT !.actions = NewActions(@, t.am.action, e.enabled)])

\* (a variant that looks the row up by the role alone)
ApplyRequestAnyModule(t, e) ==
  LET found == {i \in DOMAIN t.perms : t.perms[i].roleId = e.roleId}
      ei == IF found = {} THEN 0 ELSE CHOOSE i \in found : \A j \in found : i <= j
  IN IF ei = 0
     THEN IF e.enabled
          THEN Post("permissions",
                    [roleId |-> e.roleId, moduleId |-> t.am.moduleId,
                     actions |-> <<t.am.action>>,
                     visibleFields |-> <<>>, editableFields |-> <<>>])
          ELSE NoReq
     ELSE Put("permissions", t.perms[ei].id,
              [t.perms[ei] EXCEPT !.actions = NewActions(@, t.am.action, e.enabled)])

\* body of the for loop for one entry: the request it sends, or NoReq
ApplyRequest(t, e) ==
  LET pm == PermMapOf(t.perms)
      key == PermKey(e.roleId, t.am.moduleId)
  IN IF ~MapHas(pm, key)
     THEN IF e.enabled
          THEN Post("permissions",
                    [roleId |-> e.roleId, moduleId |-> t.am.moduleId,
                     actions |-> <<t.am.action>>,
                     visibleFields |-> <<>>, editableFields |-> <<>>])
          ELSE NoReq
     ELSE Put("permissions", pm[key].id,
              [pm[key] EXCEPT !.actions = NewActions(@, t.am.action, e.enabled)])

\* the loop from entry i up to its next await; after the last entry, loadAll
RECURSIVE ApplyFrom(_, _)
ApplyFrom(t, i) ==
  LET entries == RoleEntries(t.am) IN
  IF i > Len(entries) THEN LoadStart([t EXCEPT !.i = i])
  ELSE LET r == ApplyRequest(t, entries[i])
       IN IF r.method = "none" THEN ApplyFrom(t, i + 1)
          ELSE Send([t EXCEPT !.i = i], r)

applyActionModal ==
  /\ ~loading /\ actionModal.open
  /\ CanStart
  /\ IF actionModal.userId = Null \/ actionModal.moduleId = Null
        \/ actionModal.action = NoAction
     THEN UNCHANGED <<tasks, loading>>
     ELSE LET t == ApplyFrom([NewTask("apply") EXCEPT !.am = actionModal,
                                                    !.perms = permissions], 1)
          IN /\ tasks' = Append(tasks, t)
             /\ loading' = (loading \/ t.pc = "load")
  /\ UNCHANGED <<serverVars, collectionVars, activeTab, fieldsModal, actionModal,
                 view, limit>>
  /\ alertShown' = NoAlert


\* --------------------------------------------------- Field-Editor workflow
NoLinkAlert == "Assign a role to the user first to edit fields for that role/module."

\* Array.prototype.find: the index of the first element of the set of
\* matching indexes, 0 when nothing matches
First(matching) ==
  IF matching = {} THEN 0
  ELSE CHOOSE i \in matching : \A j \in matching : i <= j

\* (a variant that takes the last link of the user instead of the first)
openFieldsEditorLastLink(userId, moduleObj) ==
  LET links == {i \in DOMAIN userRoles : userRoles[i].userId = userId}
      ri == IF links = {} THEN 0 ELSE CHOOSE i \in links : \A j \in links : j <= i IN
  /\ MatrixShown
  /\ userId \in Ids(users) /\ moduleObj \in Range(modules)
  /\ IF ri = 0
     THEN /\ alertShown' = NoLinkAlert
          /\ UNCHANGED fieldsModal
     ELSE LET rel == userRoles[ri]
              key == PermKey(rel.roleId, moduleObj.id)
              found == MapHas(permMap, key)
          IN /\ fieldsModal' =
                  [open |-> TRUE,
                   permId |-> IF found THEN permMap[key].id ELSE Null,
                   moduleId |-> moduleObj.id,
                   roleId |-> rel.roleId,
                   visibleFields |-> IF found THEN permMap[key].visibleFields ELSE <<>>,
                   editableFields |-> IF found THEN permMap[key].editableFields ELSE <<>>,
                   allFields |-> moduleObj.fields]
             /\ alertShown' = NoAlert
  /\ UNCHANGED <<serverVars, collectionVars, loading, activeTab, actionModal,
                 tasks, view, limit>>

openFieldsEditor(userId, moduleObj) ==
  LET ri == First({i \in DOMAIN userRoles : userRoles[i].userId = userId}) IN
  /\ MatrixShown
  /\ userId \in Ids(users) /\ moduleObj \in Range(modules)
  /\ IF ri = 0
     THEN /\ alertShown' = NoLinkAlert
          /\ UNCHANGED fieldsModal
     ELSE LET rel == userRoles[ri]
              key == PermKey(rel.roleId, moduleObj.id)
              found == MapHas(permMap, key)
          IN /\ fieldsModal' =
                  [open |-> TRUE,
                   permId |-> IF found THEN permMap[key].id ELSE Null,
                   moduleId |-> moduleObj.id,
                   roleId |-> rel.roleId,
                   visibleFields |-> IF found THEN permMap[key].visibleFields ELSE <<>>,
                   editableFields |-> IF found THEN permMap[key].editableFields ELSE <<>>,
                   allFields |-> moduleObj.fields]
             /\ alertShown' = NoAlert
  /\ UNCHANGED <<serverVars, collectionVars, loading, activeTab, actionModal,
                 tasks, view, limit>>

ToggleIn(s, f) == IF Includes(s, f) THEN Filter(s, f) ELSE Append(s, f)

toggleVisibleField(f) ==
  /\ ~loading /\ fieldsModal.open
  /\ Includes(fieldsModal.allFields, f)
  /\ fieldsModal' = [fieldsModal EXCEPT !.visibleFields = ToggleIn(@, f)]
  /\ UNCHANGED <<serverVars, collectionVars, loading, activeTab, actionModal,
                 tasks, view, limit>>
  /\ alertShown' = NoAlert

toggleEditableField(f) ==
  /\ ~loading /\ fieldsModal.open
  /\ Includes(fieldsModal.allFields, f)
  /\ fieldsModal' = [fieldsModal EXCEPT !.editableFields = ToggleIn(@, f)]
  /\ UNCHANGED <<serverVars, collectionVars, loading, activeTab, actionModal,
                 tasks, view, limit>>
  /\ alertShown' = NoAlert

cancelFieldsModal ==
  /\ ~loading /\ fieldsModal.open
  /\ fieldsModal' = [fieldsModal EXCEPT !.open = FALSE]
  /\ UNCHANGED <<serverVars, collectionVars, loading, activeTab, actionModal,
                 tasks, view, limit>>
  /\ alertShown' = NoAlert

\* (a variant whose update does not spread the existing record)
SaveRequestDropsActions(fm, perms) ==
  LET ei == First({i \in DOMAIN perms : perms[i].roleId = fm.roleId
                                           /\ perms[i].moduleId = fm.moduleId})
  IN IF ei # 0
     THEN Put("permissions", perms[ei].id,
              [perms[ei] EXCEPT !.actions = <<>>,
                                !.visibleFields = fm.visibleFields,
                                !.editableFields = fm.editableFields])
     ELSE Post("permissions",
               [roleId |-> fm.roleId, moduleId |-> fm.moduleId, actions |-> <<>>,
                visibleFields |-> fm.visibleFields,
                editableFields |-> fm.editableFields])

\* saveFieldsModal up to its first await
SaveRequest(fm, perms) ==
  LET ei == First({i \in DOMAIN perms : perms[i].roleId = fm.roleId
                                           /\ perms[i].moduleId = fm.moduleId})
  IN IF ei # 0
     THEN Put("permissions", perms[ei].id,
              [perms[ei] EXCEPT !.visibleFields = fm.visibleFields,
                                !.editableFields = fm.editableFields])
     ELSE Post("permissions",
               [roleId |-> fm.roleId, moduleId |-> fm.moduleId, actions |-> <<>>,
                visibleFields |-> fm.visibleFields,
                editableFields |-> fm.editableFields])

saveFieldsModal ==
  /\ ~loading /\ fieldsModal.open
  /\ CanStart
  /\ IF fieldsModal.moduleId = Null \/ fieldsModal.roleId = Null
     THEN /\ fieldsModal' = [fieldsModal EXCEPT !.open = FALSE]
          /\ UNCHANGED tasks
     ELSE /\ tasks' = Append(tasks, Send([NewTask("save") EXCEPT !.fm = fieldsModal],
                                         SaveRequest(fieldsModal, permissions)))
          /\ UNCHANGED fieldsModal
  /\ UNCHANGED <<serverVars, collectionVars, loading, activeTab, actionModal,
                 view, limit>>
  /\ alertShown' = NoAlert

\* --------------------------------------------------- Role-Assignment workflow
\* toggleRoleForUser up to its first await
ToggleRequest(urs, userId, roleId) ==
  LET ei == First({i \in DOMAIN urs : urs[i].userId = userId /\ urs[i].roleId = roleId})
  IN IF ei # 0
     THEN IF urs[ei].id # Null THEN Delete("userRole", urs[ei].id) ELSE NoReq
     ELSE Post("userRole", [userId |-> userId, roleId |-> roleId])

toggleRoleForUser(userId, roleId) ==
  LET r == ToggleRequest(userRoles, userId, roleId)
      t == IF r.method = "none" THEN LoadStart(NewTask("toggle"))
           ELSE Send(NewTask("toggle"), r)
  IN
  /\ AssignShown
  /\ userId \in Ids(users) /\ roleId \in Ids(roles)
  /\ CanStart
  /\ tasks' = Append(tasks, t)
  /\ loading' = (loading \/ t.pc = "load")
  /\ UNCHANGED <<serverVars, collectionVars, activeTab, fieldsModal, actionModal,
                 view, limit>>
  /\ alertShown' = NoAlert


\* --------------------------------------------- the service, mutating calls
HasId(coll, id) == \E i \in DOMAIN coll : coll[i].id = id

CreatedPermission(body, id) ==
  [id |-> id, roleId |-> body.roleId, moduleId |-> body.moduleId,
   actions |-> body.actions, visibleFields |-> body.visibleFields,
   editableFields |-> body.editableFields]

CreatedUserRole(body, id) == [id |-> id, userId |-> body.userId, roleId |-> body.roleId]

\* the service carries the request out and answers 2xx
Pending(k, method, path) ==
  /\ tasks[k].pc = "fetch" /\ tasks[k].resp = "none"
  /\ tasks[k].req.method = method /\ tasks[k].req.path = path

ServePostPermission(k) ==
  LET r == tasks[k].req IN
  /\ Pending(k, "POST", "permissions")
  /\ sPermissions' = Append(sPermissions, CreatedPermission(r.body, nextId))
  /\ nextId' = nextId + 1
  /\ tasks' = [tasks EXCEPT ![k].resp = "ok"]
  /\ UNCHANGED <<sUserRoles, collectionVars, loading, activeTab, fieldsModal,
                 actionModal, view, limit>>
  /\ alertShown' = NoAlert

ServePutPermission(k) ==
  LET r == tasks[k].req IN
  /\ Pending(k, "PUT", "permissions")
  /\ HasId(sPermissions, r.id)
  /\ sPermissions' = [i \in DOMAIN sPermissions |->
                        IF sPermissions[i].id = r.id THEN r.body ELSE sPermissions[i]]
  /\ tasks' = [tasks EXCEPT ![k].resp = "ok"]
  /\ UNCHANGED <<sUserRoles, nextId, collectionVars, loading, activeTab,
                 fieldsModal, actionModal, view, limit>>
  /\ alertShown' = NoAlert

ServePostUserRole(k) ==
  LET r == tasks[k].req IN
  /\ Pending(k, "POST", "userRole")
  /\ sUserRoles' = Append(sUserRoles, CreatedUserRole(r.body, nextId))
  /\ nextId' = nextId + 1
  /\ tasks' = [tasks EXCEPT ![k].resp = "ok",
                            ![k].data = << CreatedUserRole(r.body, nextId) >>]
  /\ UNCHANGED <<sPermissions, collectionVars, loading, activeTab, fieldsModal,
                 actionModal, view, limit>>
  /\ alertShown' = NoAlert

ServeDeleteUserRole(k) ==
  LET r == tasks[k].req IN
  /\ Pending(k, "DELETE", "userRole")
  /\ HasId(sUserRoles, r.id)
  /\ sUserRoles' = SelectSeq(sUserRoles, LAMBDA ur : ur.id # r.id)
  /\ tasks' = [tasks EXCEPT ![k].resp = "ok"]
  /\ UNCHANGED <<sPermissions, nextId, collectionVars, loading, activeTab,
                 fieldsModal, actionModal, view, limit>>
  /\ alertShown' = NoAlert

\* the service answers with an error status and changes nothing: fetch
\* resolves all the same.  (The handlers never read the status; the body is
\* read only after POST /api/userRole, whose error answers are left out.)
ServeError(k) ==
  /\ tasks[k].pc = "fetch" /\ tasks[k].resp = "none"
  /\ ~(tasks[k].req.method = "POST" /\ tasks[k].req.path = "userRole")
  /\ tasks' = [tasks EXCEPT ![k].resp = "httpError"]
  /\ UNCHANGED <<serverVars, collectionVars, loading, activeTab, fieldsModal,
                 actionModal, view, limit>>
  /\ alertShown' = NoAlert

\* the request does not get through: fetch rejects
FetchRejects(k) ==
  /\ tasks[k].pc = "fetch" /\ tasks[k].resp = "none"
  /\ tasks' = [tasks EXCEPT ![k].resp = "rejected"]
  /\ UNCHANGED <<serverVars, collectionVars, loading, activeTab, fieldsModal,
                 actionModal, view, limit>>
  /\ alertShown' = NoAlert

\* ------------------------------------------------ continuations after await
\* (a variant without the try: a call that did not succeed ends the loop)
applyResumeAborts(k) ==
  LET t == IF tasks[k].resp = "ok"
           THEN ApplyFrom([tasks[k] EXCEPT !.req = NoReq, !.resp = "none"], tasks[k].i + 1)
           ELSE LoadStart([tasks[k] EXCEPT !.errs = @ \cup {tasks[k].req.body.roleId}]) IN
  /\ tasks[k].kind = "apply" /\ tasks[k].pc = "fetch" /\ tasks[k].resp # "none"
  /\ tasks' = [tasks EXCEPT ![k] = t]
  /\ loading' = (loading \/ t.pc = "load")
  /\ UNCHANGED <<serverVars, collectionVars, activeTab, fieldsModal, actionModal,
                 view, limit>>
  /\ alertShown' = NoAlert

\* (a variant whose fetch is not awaited)
applyResumeNoAwait(k) ==
  LET t == ApplyFrom([tasks[k] EXCEPT !.req = NoReq, !.resp = "none"],
                     tasks[k].i + 1) IN
  /\ tasks[k].kind = "apply" /\ tasks[k].pc = "fetch"
  /\ tasks' = [tasks EXCEPT ![k] = t]
  /\ loading' = (loading \/ t.pc = "load")
  /\ UNCHANGED <<serverVars, collectionVars, activeTab, fieldsModal, actionModal,
                 view, limit>>
  /\ alertShown' = NoAlert

\* applyActionModal: the try block ends, or the catch logs; next entry
applyResume(k) ==
  LET failedNow == IF tasks[k].resp = "ok" THEN {} ELSE {tasks[k].req.body.roleId}
      t == ApplyFrom([tasks[k] EXCEPT !.req = NoReq, !.resp = "none",
                                      !.errs = @ \cup failedNow],
                     tasks[k].i + 1) IN
  /\ tasks[k].kind = "apply" /\ tasks[k].pc = "fetch" /\ tasks[k].resp # "none"
  /\ tasks' = [tasks EXCEPT ![k] = t]
  /\ loading' = (loading \/ t.pc = "load")
  /\ UNCHANGED <<serverVars, collectionVars, activeTab, fieldsModal, actionModal,
                 view, limit>>
  /\ alertShown' = NoAlert

\* saveFieldsModal after its fetch resolved: loadAll
saveResume(k) ==
  /\ tasks[k].kind = "save" /\ tasks[k].pc = "fetch"
  /\ tasks[k].resp \in {"ok", "httpError"}
  /\ tasks' = [tasks EXCEPT ![k] = LoadStart(tasks[k])]
  /\ loading' = TRUE
  /\ UNCHANGED <<serverVars, collectionVars, activeTab, fieldsModal, actionModal,
                 view, limit>>
  /\ alertShown' = NoAlert

\* toggleRoleForUser after its fetch resolved: setUserRoles(prev => ...), loadAll
toggleResume(k) ==
  LET t == tasks[k] IN
  /\ t.kind = "toggle" /\ t.pc = "fetch"
  /\ t.resp \in {"ok", "httpError"}
  /\ userRoles' = IF t.req.method = "DELETE"
                  THEN SelectSeq(userRoles, LAMBDA u : u.id # t.req.id)
                  ELSE Append(userRoles, t.data[1])
  /\ tasks' = [tasks EXCEPT ![k] = LoadStart(t)]
  /\ loading' = TRUE
  /\ UNCHANGED <<serverVars, users, modules, permissions, roles, activeTab,
                 fieldsModal, actionModal, view, limit>>
  /\ alertShown' = NoAlert

\* saveFieldsModal / toggleRoleForUser: the awaited fetch rejected and the
\* handler has no try around it; the rest of the handler does not run
handlerThrows(k) ==
  /\ tasks[k].kind \in {"save", "toggle"} /\ tasks[k].pc = "fetch"
  /\ tasks[k].resp = "rejected"
  /\ tasks' = [tasks EXCEPT ![k] = Finished(tasks[k], "threw")]
  /\ UNCHANGED <<serverVars, collectionVars, loading, activeTab, fieldsModal,
                 actionModal, view, limit>>
  /\ alertShown' = NoAlert

\* ------------------------------------------------------------ Next
Next ==
  \/ \E k \in DOMAIN tasks, g \in GetGroups : ServeGet(k, g)
  \/ \E k \in DOMAIN tasks, p \in Range(GetPaths) : FailGet(k, p)
  \/ \E k \in DOMAIN tasks : LoadComplete(k)
  \/ \E tab \in {"permissions", "assign"} : setActiveTab(tab)
  \/ \E u \in UserIds, m \in ModuleIds, a \in Range(SubSeq(Actions, 1, NumActions)) : openActionModal(u, m, a)
  \/ \E r \in RoleIds : selectRole(r)
  \/ cancelActionModal
  \/ applyActionModal
  \/ \E u \in UserIds, m \in Range(modules) : openFieldsEditor(u, m)
  \/ \E f \in Range(ModuleFields) : toggleVisibleField(f)
  \/ \E f \in Range(ModuleFields) : toggleEditableField(f)
  \/ cancelFieldsModal
  \/ saveFieldsModal
  \/ \E u \in UserIds, r \in RoleIds : toggleRoleForUser(u, r)
  \/ \E k \in DOMAIN tasks : ServePostPermission(k)
  \/ \E k \in DOMAIN tasks : ServePutPermission(k)
  \/ \E k \in DOMAIN tasks : ServePostUserRole(k)
  \/ \E k \in DOMAIN tasks : ServeDeleteUserRole(k)
  \/ \E k \in DOMAIN tasks : ServeError(k)
  \/ \E k \in DOMAIN tasks : FetchRejects(k)
  \/ \E k \in DOMAIN tasks : applyResume(k)
  \/ \E k \in DOMAIN tasks : saveResume(k)
  \/ \E k \in DOMAIN tasks : toggleResume(k)
  \/ \E k \in DOMAIN tasks : handlerThrows(k)

Spec == Init /\ [][Next]_vars


\* ------------------------------------------------ rendering a matrix cell
\* the <td> of user u and module m: the checkbox of action a and the two
\* field lists
RenderCell(userId, moduleId, action) ==
  /\ ~loading
  /\ view' = [userId |-> userId, moduleId |-> moduleId, action |-> action,
              checked |-> userHasAction(userId, moduleId, action),
              fields |-> unionFieldsForUserModule(userId, moduleId)]
  /\ UNCHANGED <<serverVars, collectionVars, loading, activeTab, fieldsModal,
                 actionModal, tasks, limit>>
  /\ alertShown' = NoAlert

\* Snapshots to render: every list of at most MaxRows permission rows and
\* every list of at most MaxLinks links over the ids, several rows or links
\* of one pair included.
DrawnActions == {<<"read">>, <<"create", "read">>}
DrawnVisible == {<<>>, <<"a">>, <<"b", "a">>}
DrawnEditable == {<<>>, <<"b">>}
DrawnRows == [roleId : RoleIds, moduleId : ModuleIds, actions : DrawnActions,
              visibleFields : DrawnVisible, editableFields : DrawnEditable]
DrawnLinks == [userId : UserIds, roleId : RoleIds]
SeqsUpTo(S, n) == UNION {[1..k -> S] : k \in 0..n}
PermissionsOf(rows) ==
  [i \in DOMAIN rows |-> CreatedPermission(rows[i], i)]
UserRolesOf(links) ==
  [i \in DOMAIN links |-> CreatedUserRole(links[i], Len(links) + i)]

InitResolver ==
  /\ \E rows \in SeqsUpTo(DrawnRows, MaxRows), links \in SeqsUpTo(DrawnLinks, MaxLinks) :
       /\ sPermissions = PermissionsOf(rows)
       /\ sUserRoles = UserRolesOf(links)
       /\ nextId = Len(rows) + Len(links) + Len(links) + 1
  /\ users = ServerUsers /\ modules = ServerModules /\ roles = ServerRoles
  /\ permissions = sPermissions
  /\ userRoles = sUserRoles
  /\ loading = FALSE
  /\ activeTab = "permissions"
  /\ fieldsModal = InitFieldsModal
  /\ actionModal = ClosedActionModal
  /\ alertShown = NoAlert
  /\ tasks = << Finished(NewTask("init"), "done") >>
  /\ view = <<>>
  /\ limit = 0

NextResolver ==
  \E u \in UserIds, m \in ModuleIds, a \in Range(Actions) : RenderCell(u, m, a)

SpecResolver == InitResolver /\ [][NextResolver]_vars


\* The service answers every request, one way or the other, and the event
\* loop runs the continuation of every settled await.
Progress ==
  \E k \in DOMAIN tasks :
    \/ \E g \in GetGroups : ServeGet(k, g)
    \/ \E p \in Range(GetPaths) : FailGet(k, p)
    \/ LoadComplete(k)
    \/ ServePostPermission(k) \/ ServePutPermission(k)
    \/ ServePostUserRole(k) \/ ServeDeleteUserRole(k)
    \/ ServeError(k) \/ FetchRejects(k)
    \/ applyResume(k) \/ saveResume(k) \/ toggleResume(k) \/ handlerThrows(k)

FairSpec == Spec /\ WF_vars(Progress)

\* ------------------------------------- the operator on the Assign Roles tab
\* The operator only switches tabs and toggles role cells, MaxToggles times,
\* a cell also while earlier toggles are still in flight.
InitAssign ==
  /\ \E d \in InitDatasets : Mounted(d)
  /\ limit = MaxToggles

NextAssign ==
  \/ \E k \in DOMAIN tasks, g \in GetGroups : ServeGet(k, g)
  \/ \E k \in DOMAIN tasks, p \in Range(GetPaths) : FailGet(k, p)
  \/ \E k \in DOMAIN tasks : LoadComplete(k)
  \/ \E tab \in {"permissions", "assign"} : setActiveTab(tab)
  \/ \E u \in UserIds, r \in RoleIds : toggleRoleForUser(u, r)
  \/ \E k \in DOMAIN tasks : ServePostUserRole(k)
  \/ \E k \in DOMAIN tasks : ServeDeleteUserRole(k)
  \/ \E k \in DOMAIN tasks : ServeError(k)
  \/ \E k \in DOMAIN tasks : FetchRejects(k)
  \/ \E k \in DOMAIN tasks : toggleResume(k)
  \/ \E k \in DOMAIN tasks : handlerThrows(k)

SpecAssign == InitAssign /\ [][NextAssign]_vars

\* ------------------------------------------ the operator in the two modals
\* The service starts with one link per user: user 1 holds role 1, which has
\* no row for module 1, and user 2 holds role 2, which has one.  Role 1 has
\* a row for another module, one that the service does not list.
OtherModule == NumModules + 1
DatasetC ==
  [userRoles |-> << [id |-> 1, userId |-> 1, roleId |-> 1],
                    [id |-> 2, userId |-> 2, roleId |-> 2] >>,
   permissions |-> << [id |-> 3, roleId |-> 2, moduleId |-> 1,
                       actions |-> <<"read">>,
                       visibleFields |-> <<"a">>, editableFields |-> <<>>],
                      [id |-> 4, roleId |-> 1, moduleId |-> OtherModule,
                       actions |-> <<"read">>,
                       visibleFields |-> <<>>, editableFields |-> <<>>] >>]

\* The operator opens the modals of the matrix and presses Apply and Save,
\* MaxPresses times in all, also while an earlier press is still in flight.
InitModals ==
  /\ Mounted(DatasetC)
  /\ limit = MaxPresses

NextModals ==
  \/ \E k \in DOMAIN tasks, g \in GetGroups : ServeGet(k, g)
  \/ \E k \in DOMAIN tasks : LoadComplete(k)
  \/ \E u \in UserIds, m \in ModuleIds : openActionModal(u, m, Actions[1])
  \/ \E r \in RoleIds : selectRole(r)
  \/ cancelActionModal
  \/ applyActionModal
  \/ \E u \in UserIds, m \in Range(modules) : openFieldsEditor(u, m)
  \/ \E f \in Range(ModuleFields) : toggleVisibleField(f)
  \/ cancelFieldsModal
  \/ saveFieldsModal
  \/ \E k \in DOMAIN tasks : ServePostPermission(k)
  \/ \E k \in DOMAIN tasks : ServePutPermission(k)
  \/ \E k \in DOMAIN tasks : ServeError(k)
  \/ \E k \in DOMAIN tasks : FetchRejects(k)
  \/ \E k \in DOMAIN tasks : applyResume(k)
  \/ \E k \in DOMAIN tasks : saveResume(k)
  \/ \E k \in DOMAIN tasks : handlerThrows(k)

SpecModals == InitModals /\ [][NextModals]_vars

\* ================================================================ claims
\* the links of a user and the rows of a (role, module) pair in the snapshot
LinksOf(userId) == {i \in DOMAIN userRoles : userRoles[i].userId = userId}
RowsOf(roleId, moduleId) ==
  {j \in DOMAIN permissions :
     permissions[j].roleId = roleId /\ permissions[j].moduleId = moduleId}
\* the row of the pair that the index keeps: the last one in snapshot order
LastRowsOf(roleId, moduleId) ==
  {j \in RowsOf(roleId, moduleId) : \A k \in RowsOf(roleId, moduleId) : k <= j}
NoDuplicates(s) == \A i, j \in DOMAIN s : s[i] = s[j] => i = j

\* C1 (as stated): the checkbox of (U, M, A) is checked iff some role linked
\* to U has a permission row for (R, M) whose actions contain A.
C1_AnyRowGrants ==
  view # <<>> =>
    (view.checked <=>
       \E i \in LinksOf(view.userId) :
         \E j \in RowsOf(userRoles[i].roleId, view.moduleId) :
           Includes(permissions[j].actions, view.action))

\* C1 (amended): the checkbox of (U, M, A) is checked iff for some role R
\* linked to U the LAST row for (R, M) in the snapshot contains A; it is
\* unchecked when U has no link.
C1_LastRowGrants ==
  view # <<>> =>
    /\ view.checked <=>
         \E i \in LinksOf(view.userId) :
           \E j \in LastRowsOf(userRoles[i].roleId, view.moduleId) :
             Includes(permissions[j].actions, view.action)
    /\ LinksOf(view.userId) = {} => ~view.checked

\* a cell rendered checked from a snapshot in which the role's earlier row
\* for the module lacks the action and its last row has it
C1_Witness ==
  /\ view # <<>> /\ view.checked
  /\ \E i \in LinksOf(view.userId) :
       \E j, k \in RowsOf(userRoles[i].roleId, view.moduleId) :
         /\ j < k
         /\ ~Includes(permissions[j].actions, view.action)
         /\ Includes(permissions[k].actions, view.action)

RolesOf(userId) == {userRoles[i].roleId : i \in LinksOf(userId)}
AllRowsOfUser(userId, moduleId) ==
  UNION {RowsOf(r, moduleId) : r \in RolesOf(userId)}
LastRowsOfUser(userId, moduleId) ==
  UNION {LastRowsOf(r, moduleId) : r \in RolesOf(userId)}
VisibleOver(rows) == UNION {Range(permissions[j].visibleFields) : j \in rows}
EditableOver(rows) == UNION {Range(permissions[j].editableFields) : j \in rows}

\* C2 (as stated): the two lists of a cell are, as sets, the unions of
\* visibleFields / editableFields over ALL rows of the user's roles for the
\* module, without duplicates, empty when there is no such row.
C2_UnionOfAllRows ==
  view # <<>> =>
    /\ Range(view.fields.visible) =
         VisibleOver(AllRowsOfUser(view.userId, view.moduleId))
    /\ Range(view.fields.editable) =
         EditableOver(AllRowsOfUser(view.userId, view.moduleId))
    /\ NoDuplicates(view.fields.visible) /\ NoDuplicates(view.fields.editable)

\* C2 (amended): the unions are over the LAST row of each (role, module) pair
\* of the user's roles; still without duplicates, and empty when the user's
\* roles have no row for the module.
C2_UnionOfLastRows ==
  view # <<>> =>
    /\ Range(view.fields.visible) =
         VisibleOver(LastRowsOfUser(view.userId, view.moduleId))
    /\ Range(view.fields.editable) =
         EditableOver(LastRowsOfUser(view.userId, view.moduleId))
    /\ NoDuplicates(view.fields.visible) /\ NoDuplicates(view.fields.editable)
    /\ (\A i \in LinksOf(view.userId) : RowsOf(userRoles[i].roleId, view.moduleId) = {})
         => view.fields.visible = <<>> /\ view.fields.editable = <<>>

\* a cell whose visible list joins the rows of two roles that share a field
C2_Witness ==
  /\ view # <<>>
  /\ Len(view.fields.visible) > 1
  /\ \E i, k \in LinksOf(view.userId) :
       /\ userRoles[i].roleId # userRoles[k].roleId
       /\ \E j \in RowsOf(userRoles[i].roleId, view.moduleId),
             l \in RowsOf(userRoles[k].roleId, view.moduleId) :
            Range(permissions[j].visibleFields) \cap Range(permissions[l].visibleFields) # {}


\* ------------------------------------------------ the action-toggle Apply
\* the Apply invocations that have not ended
Applies == {k \in DOMAIN tasks : tasks[k].kind = "apply" /\ tasks[k].pc \in {"fetch", "load"}}
Selection(t) == DOMAIN t.am.selectedRoles
\* place of role r in the iteration over the selection
Position(t, r) == Cardinality({q \in Selection(t) : q <= r})
\* the roles whose turn in the loop has come
Processed(t) ==
  {r \in Selection(t) : \/ Position(t, r) < t.i
                        \/ Position(t, r) = t.i /\ t.pc = "fetch"}
\* rows of (r, the modal's module) in the snapshot the Apply works on
SnapshotRows(t, r) ==
  {j \in DOMAIN t.perms : t.perms[j].roleId = r /\ t.perms[j].moduleId = t.am.moduleId}
SnapshotRow(t, r) ==
  t.perms[CHOOSE j \in SnapshotRows(t, r) : \A l \in SnapshotRows(t, r) : l <= j]
\* the requests the Apply has issued for role r
RequestsFor(t, r) == {n \in DOMAIN t.sent : t.sent[n].body.roleId = r}
Count(a, s) == Cardinality({i \in DOMAIN s : s[i] = a})

\* C3: for each role of the selection without a permission row for the
\* modal's module, the Apply issues exactly one request if the role is
\* enabled, the create of (role, module, [action], [], []), and no request
\* if the role is disabled.
C3_CreateOnlyWhenEnabled ==
  \A k \in Applies :
    LET t == tasks[k] IN
    \A r \in Processed(t) :
      SnapshotRows(t, r) = {} =>
        IF t.am.selectedRoles[r]
        THEN /\ Cardinality(RequestsFor(t, r)) = 1
             /\ \A n \in RequestsFor(t, r) :
                  /\ t.sent[n].method = "POST" /\ t.sent[n].path = "permissions"
                  /\ t.sent[n].body =
                       [roleId |-> r, moduleId |-> t.am.moduleId,
                        actions |-> <<t.am.action>>,
                        visibleFields |-> <<>>, editableFields |-> <<>>]
        ELSE RequestsFor(t, r) = {}

\* an Apply whose loop has ended, with an enabled role that had no row (its
\* create was sent) and nothing else to create
C3_Witness ==
  \E k \in Applies :
    LET t == tasks[k] IN
    /\ t.pc = "load"
    /\ \E r \in Selection(t) :
         /\ SnapshotRows(t, r) = {} /\ t.am.selectedRoles[r]
         /\ \E n \in RequestsFor(t, r) : t.sent[n].method = "POST"

\* C4: for each role of the selection with a permission row, the Apply issues
\* one update of that row's id whose payload repeats the row's id, roleId,
\* moduleId, visibleFields and editableFields; every other action occurs in
\* the payload as often as in the row, and the toggled action occurs once if
\* the role is enabled and not at all if it is disabled.
C4_UpdateKeepsTheRest ==
  \A k \in Applies :
    LET t == tasks[k] IN
    \A r \in Processed(t) :
      SnapshotRows(t, r) # {} =>
        LET row == SnapshotRow(t, r) IN
        /\ Cardinality(RequestsFor(t, r)) = 1
        /\ \A n \in RequestsFor(t, r) :
             LET q == t.sent[n] IN
             /\ q.method = "PUT" /\ q.path = "permissions" /\ q.id = row.id
             /\ q.body.id = row.id
             /\ q.body.roleId = row.roleId /\ q.body.moduleId = row.moduleId
             /\ q.body.visibleFields = row.visibleFields
             /\ q.body.editableFields = row.editableFields
             /\ \A a \in (Range(q.body.actions) \cup Range(row.actions)) \ {t.am.action} :
                  Count(a, q.body.actions) = Count(a, row.actions)
             /\ Count(t.am.action, q.body.actions) =
                  IF t.am.selectedRoles[r] THEN 1 ELSE 0

\* an Apply that takes the action away from a row holding other actions too,
\* and one that adds it: here the first
C4_Witness ==
  \E k \in Applies :
    LET t == tasks[k] IN
    \E r \in Processed(t) :
      /\ SnapshotRows(t, r) # {}
      /\ ~t.am.selectedRoles[r]
      /\ Includes(SnapshotRow(t, r).actions, t.am.action)
      /\ Len(SnapshotRow(t, r).actions) > 1
      /\ RequestsFor(t, r) # {}

\* C9: when the loop of an Apply has ended, a request has been issued for
\* exactly the roles of the selection that have a row or are enabled,
\* whichever of the calls failed.
C9_AllRolesAttempted ==
  \A k \in Applies :
    LET t == tasks[k] IN
    t.pc = "load" =>
      {r \in Selection(t) : RequestsFor(t, r) # {}} =
        {r \in Selection(t) : SnapshotRows(t, r) # {} \/ t.am.selectedRoles[r]}

\* the loop has ended, the call for one role failed and a call for a later
\* role was issued all the same
C9_Witness ==
  \E k \in Applies :
    LET t == tasks[k] IN
    /\ t.pc = "load"
    /\ \E r \in t.errs, q \in Selection(t) : r < q /\ RequestsFor(t, q) # {}


\* role r grants action a for module m in the list perms: the last row of
\* the pair contains it
GrantsIn(perms, r, m, a) ==
  \E j \in DOMAIN perms :
    /\ perms[j].roleId = r /\ perms[j].moduleId = m
    /\ \A l \in DOMAIN perms :
         (perms[l].roleId = r /\ perms[l].moduleId = m) => l <= j
    /\ Includes(perms[j].actions, a)

\* the step in which invocation k of the given kind returns after its reload
Returns(k, kind) ==
  /\ k \in DOMAIN tasks
  /\ tasks[k].kind = kind /\ tasks[k].pc = "load" /\ tasks'[k].pc = "done"

Reflected(t) ==
  \A r \in Selection(t) :
    GrantsIn(permissions', r, t.am.moduleId, t.am.action) <=> t.am.selectedRoles[r]

AlreadyApplied(t) ==
  \A r \in Selection(t) :
    t.am.selectedRoles[r] <=> GrantsIn(t.perms, r, t.am.moduleId, t.am.action)

C6_NoRoleNoModal ==
  [][\A u \in UserIds, m \in ModuleIds, a \in Range(Actions) :
       openActionModal(u, m, a) =>
         IF LinksOf(u) = {}
         THEN /\ alertShown' = NoRolesAlert
              /\ ~actionModal'.open
              /\ UNCHANGED <<serverVars, collectionVars, loading, activeTab,
                             fieldsModal, actionModal, tasks>>
         ELSE /\ actionModal'.open /\ actionModal'.userId = u
              /\ alertShown' = NoAlert]_vars

\* the notice has just been shown for a user without links
C6_Witness ==
  /\ alertShown = NoRolesAlert
  /\ ~actionModal.open
  /\ \E u \in Ids(users) : LinksOf(u) = {}

\* C7: once every started workflow has run to its end, the five local
\* collections equal the service's.
C7_SnapshotMatchesService ==
  (\A k \in DOMAIN tasks : tasks[k].pc = "done") =>
    /\ users = ServerUsers /\ modules = ServerModules /\ roles = ServerRoles
    /\ permissions = sPermissions
    /\ userRoles = sUserRoles

ApplyInFlight == Applies # {}
ApplyClosed ==
  \E k \in DOMAIN tasks :
    /\ tasks[k].kind = "apply" /\ tasks[k].pc = "done"
    /\ actionModal = ClosedActionModal /\ ~loading
ApplyReloadFailed ==
  \E k \in DOMAIN tasks : tasks[k].kind = "apply" /\ tasks[k].pc = "loadFailed"

\* C8 (as stated): no Apply ends without having reloaded the snapshot and
\* closed the modal, whatever calls failed.
C8_NoApplyEndsUnclosed == ~ApplyReloadFailed

\* C8 (amended): whatever the outcome of its create/update calls, an Apply
\* ends; if the five fetches of its reload succeed it ends by replacing the
\* five collections and closing the modal, and if one of them fails it ends
\* there, the modal and the loading flag left as they are.
C8_ApplyEndsClosedOrReloadFailed ==
  /\ ApplyInFlight ~> (ApplyClosed \/ ApplyReloadFailed)
  /\ [][\A k \in DOMAIN tasks :
          Returns(k, "apply") =>
            /\ actionModal' = ClosedActionModal /\ ~loading'
            /\ permissions' = tasks[k].gets["permissions"][1]
            /\ userRoles' = tasks[k].gets["userRole"][1]
            /\ users' = ServerUsers /\ modules' = ServerModules
            /\ roles' = ServerRoles]_vars
  /\ [][\A k \in DOMAIN tasks :
          (k \in Applies /\ tasks'[k].pc = "loadFailed") =>
            UNCHANGED <<actionModal, loading, collectionVars>>]_vars

\* an Apply one of whose calls failed has its five reload responses and is
\* about to return
C8_Witness ==
  \E k \in Applies :
    /\ tasks[k].pc = "load" /\ tasks[k].errs # {}
    /\ \A p \in Range(GetPaths) : tasks[k].gets[p] # <<>>

\* C10: no workflow ends on a rejected POST / PUT / DELETE without running
\* its reload.
C10_MutationFailureCaught ==
  \A k \in DOMAIN tasks : tasks[k].pc # "threw"

\* ------------------------------------------------------------ loads
\* the five responses of load k, all present
Fetched(k) == \A p \in Range(GetPaths) : tasks[k].gets[p] # <<>>

\* the step in which load k, its five fetches answered, sets the five
\* collections from the five responses
LoadSets(k) ==
  /\ tasks[k].pc = "load" /\ Fetched(k) /\ tasks'[k].pc = "done"
  /\ users' = tasks[k].gets["user"][1]
  /\ modules' = tasks[k].gets["module"][1]
  /\ permissions' = tasks[k].gets["permissions"][1]
  /\ userRoles' = tasks[k].gets["userRole"][1]
  /\ roles' = tasks[k].gets["role"][1]

\* C11: the loading flag falls only in a step of a load whose five fetches
\* succeeded, and users, modules, permissions and roles change only in such
\* a step, which sets all five collections from the five responses; after a
\* failed fetch of the initial load the five collections are never set and
\* the loading flag stays raised.
C11_LoadAllOrNothing ==
  /\ [][(loading /\ ~loading') => \E k \in DOMAIN tasks : LoadSets(k)]_vars
  /\ [][(<<users, modules, permissions, roles>>' # <<users, modules, permissions, roles>>)
          => \E k \in DOMAIN tasks : LoadSets(k)]_vars
  /\ [](tasks[1].pc = "loadFailed" =>
          /\ loading
          /\ users = <<>> /\ modules = <<>> /\ permissions = <<>>
          /\ userRoles = <<>> /\ roles = <<>>
          /\ UserTasks = {})

\* the initial load has failed
C11_Witness == tasks[1].kind = "init" /\ tasks[1].pc = "loadFailed" /\ loading

\* ------------------------------------------------ the role-assignment toggle
\* the links of the pair (u, r) in the snapshot
PairLinks(userId, roleId) ==
  {i \in LinksOf(userId) : userRoles[i].roleId = roleId}

\* a click on the cell (u, r) issues one DELETE by the id of the pair's link
\* if the snapshot holds one, one POST of {userId, roleId} otherwise
ToggleIssuesOne ==
  \A u \in UserIds, r \in RoleIds :
    toggleRoleForUser(u, r) =>
      LET t == tasks'[Len(tasks')] IN
      IF PairLinks(u, r) # {}
      THEN \E i \in PairLinks(u, r) : t.sent = << Delete("userRole", userRoles[i].id) >>
      ELSE t.sent = << Post("userRole", [userId |-> u, roleId |-> r]) >>

\* when the call has resolved, the link is removed from, or the returned
\* record appended to, the local list, and the reload starts
ToggleUpdatesLocal ==
  \A k \in DOMAIN tasks :
    toggleResume(k) =>
      /\ tasks'[k].pc = "load" /\ Len(tasks'[k].sent) = 1
      /\ IF tasks[k].req.method = "DELETE"
         THEN /\ \A i \in DOMAIN userRoles' : userRoles'[i].id # tasks[k].req.id
              /\ \A i \in DOMAIN userRoles :
                   userRoles[i].id # tasks[k].req.id => Includes(userRoles', userRoles[i])
         ELSE /\ userRoles' = Append(userRoles, tasks[k].data[1])
              /\ tasks[k].data[1].userId = tasks[k].req.body.userId
              /\ tasks[k].data[1].roleId = tasks[k].req.body.roleId

\* C12: a role toggle issues exactly one request, the DELETE of the pair's
\* link by its id if the snapshot holds one and the POST of {userId, roleId}
\* otherwise, updates the local list accordingly, and its reload follows:
\* no toggle ends without it.
C12_ToggleMutatesThenReloads ==
  /\ [][ToggleIssuesOne]_vars
  /\ [][ToggleUpdatesLocal]_vars
  /\ [](\A k \in DOMAIN tasks :
          tasks[k].kind = "toggle" =>
            /\ Len(tasks[k].sent) <= 1
            /\ tasks[k].pc \in {"fetch", "load", "done", "loadFailed"})

\* ------------------------------------------------ the field editor
\* the Save invocations that have not ended
Saves == {k \in DOMAIN tasks : tasks[k].kind = "save" /\ tasks[k].pc \in {"fetch", "load"}}

\* a click on Save with a draft for a role and a module issues the update of
\* the pair's record, the field lists replaced by the draft's, or else the
\* create of (role, module, no action, the draft's lists)
SaveIssuesOne ==
  (saveFieldsModal /\ fieldsModal.roleId # Null /\ fieldsModal.moduleId # Null) =>
    LET t == tasks'[Len(tasks')]
        rows == RowsOf(fieldsModal.roleId, fieldsModal.moduleId) IN
    /\ Len(tasks') = Len(tasks) + 1 /\ t.kind = "save"
    /\ IF rows # {}
       THEN \E j \in rows :
              t.sent = << Put("permissions", permissions[j].id,
                              [id |-> permissions[j].id,
                               roleId |-> permissions[j].roleId,
                               moduleId |-> permissions[j].moduleId,
                               actions |-> permissions[j].actions,
                               visibleFields |-> fieldsModal.visibleFields,
                               editableFields |-> fieldsModal.editableFields]) >>
       ELSE t.sent = << Post("permissions",
                             [roleId |-> fieldsModal.roleId,
                              moduleId |-> fieldsModal.moduleId,
                              actions |-> <<>>,
                              visibleFields |-> fieldsModal.visibleFields,
                              editableFields |-> fieldsModal.editableFields]) >>

\* C13: Save issues exactly one request: if the snapshot holds a record for
\* the draft's (role, module), the update of that record, rewritten whole
\* with the draft's two field lists and its own actions; otherwise the
\* create of (role, module) with no action and the draft's lists.
C13_SaveUpdatesOrCreates ==
  /\ [][SaveIssuesOne]_vars
  /\ [](\A k \in Saves : Len(tasks[k].sent) = 1)

\* a Save in flight that rewrites a record holding actions with a draft that
\* differs from the record's lists
C13_Witness ==
  \E k \in Saves :
    LET q == tasks[k].sent[1] IN
    /\ q.method = "PUT" /\ q.body.actions # <<>>
    /\ \E j \in DOMAIN permissions :
         /\ permissions[j].id = q.id
         /\ permissions[j].actions = q.body.actions
         /\ permissions[j].visibleFields # q.body.visibleFields

\* the first link of a user in the snapshot's order
FirstLink(userId) ==
  userRoles[CHOOSE i \in LinksOf(userId) : \A j \in LinksOf(userId) : i <= j]

\* C14: "Edit fields" for (user, module) opens the draft for the role of the
\* user's first link and the module, seeded with the two field lists of the
\* pair's permission row if there is one and with empty lists otherwise; for
\* a user without link the fields modal stays closed and unchanged, and no
\* invocation or request is started.
C14_OpensOnFirstLink ==
  [][\A u \in UserIds, m \in Range(modules) :
       openFieldsEditor(u, m) =>
         /\ UNCHANGED <<tasks, serverVars, collectionVars>>
         /\ IF LinksOf(u) = {}
            THEN ~fieldsModal'.open /\ UNCHANGED fieldsModal
            ELSE LET rows == RowsOf(FirstLink(u).roleId, m.id) IN
                 /\ fieldsModal'.open
                 /\ fieldsModal'.roleId = FirstLink(u).roleId
                 /\ fieldsModal'.moduleId = m.id
                 /\ IF rows = {}
                    THEN /\ fieldsModal'.visibleFields = <<>>
                         /\ fieldsModal'.editableFields = <<>>
                    ELSE \E j \in rows :
                           /\ fieldsModal'.visibleFields = permissions[j].visibleFields
                           /\ fieldsModal'.editableFields = permissions[j].editableFields]_vars

\* the draft is open for the role of the first link of a user whose first
\* link is not to the first of their roles, seeded from that role's row
C14_Witness ==
  /\ fieldsModal.open /\ UserTasks = {}
  /\ \E u \in UserIds :
       /\ Cardinality(RolesOf(u)) > 1
       /\ fieldsModal.roleId = FirstLink(u).roleId
       /\ \E r \in RolesOf(u) : r < fieldsModal.roleId
       /\ \E j \in RowsOf(fieldsModal.roleId, fieldsModal.moduleId) :
            /\ permissions[j].visibleFields # <<>>
            /\ fieldsModal.visibleFields = permissions[j].visibleFields

\* ------------------------------------------------ Cancel
\* C15: Cancel on the action modal puts it in the Closed state, the
\* selection discarded, whatever the selection was; Cancel on the fields
\* modal closes it; neither starts an invocation or issues a request, and
\* neither changes the five collections or the service's data.
C15_CancelOnlyCloses ==
  [][/\ cancelActionModal =>
          /\ actionModal' = ClosedActionModal
          /\ UNCHANGED <<tasks, serverVars, collectionVars, fieldsModal, loading>>
     /\ cancelFieldsModal =>
          /\ ~fieldsModal'.open
          /\ UNCHANGED <<tasks, serverVars, collectionVars, actionModal, loading>>]_vars

\* both modals are closed, nothing was ever started, and the fields modal
\* still holds the draft, changed by the operator, that Cancel dismissed
C15_Witness ==
  /\ actionModal = ClosedActionModal
  /\ ~fieldsModal.open /\ fieldsModal.moduleId # Null
  /\ UserTasks = {}
  /\ permissions = sPermissions
  /\ \E j \in RowsOf(fieldsModal.roleId, fieldsModal.moduleId) :
       permissions[j].visibleFields # fieldsModal.visibleFields

\* ------------------------------------------------ order of an Apply's calls
\* C16: an Apply issues its next request, and starts its reload, only when
\* its previous request has been answered or has failed; its requests go out
\* in the iteration order of the selection, and none is in flight once the
\* reload has started.
C16_OneRequestAtATime ==
  /\ [][\A k \in DOMAIN tasks :
          tasks[k].kind = "apply" =>
            /\ Len(tasks'[k].sent) > Len(tasks[k].sent) =>
                 /\ tasks[k].resp # "none"
                 /\ Len(tasks'[k].sent) = Len(tasks[k].sent) + 1
            /\ (tasks[k].pc = "fetch" /\ tasks'[k].pc = "load") =>
                 tasks[k].resp # "none"]_vars
  /\ [](\A k \in Applies :
          LET t == tasks[k] IN
          /\ \A n, o \in DOMAIN t.sent :
               n < o => Position(t, t.sent[n].body.roleId)
                          < Position(t, t.sent[o].body.roleId)
          /\ t.pc = "load" => t.req = NoReq
          /\ t.pc = "fetch" => t.req = t.sent[Len(t.sent)])

\* the second request of an Apply is in flight
C16_Witness ==
  \E k \in Applies :
    /\ Len(tasks[k].sent) = 2
    /\ tasks[k].pc = "fetch" /\ tasks[k].resp = "none"

\* ------------------------------------------------ the seed of the selection
\* C17: when the action modal opens for (user, module, action), its
\* selection has one entry per role linked to the user and no other, and the
\* entry of role R is true iff the snapshot holds a row for (R, module)
\* whose actions contain the action.
C17_SeedIsCurrentGrants ==
  [][\A u \in UserIds, m \in ModuleIds, a \in Range(Actions) :
       (openActionModal(u, m, a) /\ actionModal'.open) =>
         /\ DOMAIN actionModal'.selectedRoles = RolesOf(u)
         /\ \A r \in RolesOf(u) :
              actionModal'.selectedRoles[r] <=>
                \E j \in RowsOf(r, m) : Includes(permissions[j].actions, a)]_vars

\* ------------------------------------------------ uniqueness on the service
SamePair(p, q) == p.roleId = q.roleId /\ p.moduleId = q.moduleId
SameLink(p, q) == p.userId = q.userId /\ p.roleId = q.roleId

\* C18: the service holds at most one permission row per (roleId, moduleId).
C18_OneRowPerPair ==
  \A i, j \in DOMAIN sPermissions :
    SamePair(sPermissions[i], sPermissions[j]) => i = j

\* C19: the service holds at most one link per (userId, roleId), and so
\* does the local userRoles collection.
C19_OneLinkPerPair ==
  /\ \A i, j \in DOMAIN sUserRoles : SameLink(sUserRoles[i], sUserRoles[j]) => i = j
  /\ \A i, j \in DOMAIN userRoles : SameLink(userRoles[i], userRoles[j]) => i = j

\* ------------------------------------------------ what an Apply touches
\* the row is of the modal's module and of a role of the selection
InScope(t, row) == row.moduleId = t.am.moduleId /\ row.roleId \in Selection(t)

\* the step in which the service carries out the request of invocation k
Served(k) ==
  /\ k \in DOMAIN tasks
  /\ tasks[k].pc = "fetch" /\ tasks[k].resp = "none" /\ tasks'[k].resp = "ok"

\* C20: every request of an Apply is a create or an update on permissions
\* for the modal's module and a role of the selection, an update being
\* addressed to a row of that pair; when the service carries one out, the
\* links and the rows of other modules or of roles outside the selection
\* stay as they are, and no row outside that scope appears.
C20_ApplyStaysInScope ==
  /\ [](\A k \in Applies :
          LET t == tasks[k] IN
          \A n \in DOMAIN t.sent :
            /\ t.sent[n].path = "permissions"
            /\ t.sent[n].method \in {"POST", "PUT"}
            /\ InScope(t, t.sent[n].body)
            /\ t.sent[n].method = "PUT" =>
                 \E j \in SnapshotRows(t, t.sent[n].body.roleId) :
                   t.perms[j].id = t.sent[n].id)
  /\ [][\A k \in DOMAIN tasks :
          (Served(k) /\ tasks[k].kind = "apply") =>
            /\ sUserRoles' = sUserRoles
            /\ \A i \in DOMAIN sPermissions :
                 ~InScope(tasks[k], sPermissions[i]) =>
                   /\ i \in DOMAIN sPermissions'
                   /\ sPermissions'[i] = sPermissions[i]
            /\ \A i \in DOMAIN sPermissions' :
                 ~InScope(tasks[k], sPermissions'[i]) =>
                   /\ i \in DOMAIN sPermissions
                   /\ sPermissions[i] = sPermissions'[i]]_vars

\* the service has carried out the create of an Apply while it holds a row
\* of the same role for another module and a row of a role outside the
\* selection
C20_Witness ==
  \E k \in Applies :
    LET t == tasks[k] IN
    /\ t.pc = "fetch" /\ t.resp = "ok" /\ t.req.method = "POST"
    /\ \E i, j \in DOMAIN sPermissions :
         /\ sPermissions[i].roleId \in Selection(t)
         /\ sPermissions[i].moduleId # t.am.moduleId
         /\ sPermissions[j].moduleId = t.am.moduleId
         /\ sPermissions[j].roleId \notin Selection(t)

====
